---- MODULE Spec2Model ----
(***************************************************************************)
(* Resume GPT API (src/main.py): a FastAPI gateway in front of a Supabase  *)
(* (PostgREST) store and the OpenAI chat completion API.                   *)
(*                                                                         *)
(* The handlers are coroutines that call the blocking clients directly, so *)
(* one worker process runs one handler at a time; the store, however, is   *)
(* shared by every worker process serving the application. The handlers    *)
(* that make several outbound calls (tailor_resume, insert_sample_data)    *)
(* are therefore split at their outbound calls, one suspended handler per  *)
(* worker, and interleave with the handlers of the other workers. Handlers *)
(* with a single outbound call are one atomic action.                      *)
(***************************************************************************)
EXTENDS Integers, Sequences, FiniteSets, TLC

\* ---------------------------------------------------------------- bounds
MaxRequests == 2      \* requests started in one behaviour
MaxId       == 2      \* the ids callers name in their requests: 1..MaxId

\* the worker processes serving the application, each holding at most one
\* handler between two of its outbound calls
Reqs == {"w1", "w2"}

\* ------------------------------------------------------- values and types
Tables == {"resumes", "job_descriptions", "tailored_resumes"}

None == <<>>
Some(v) == <<v>>

UserIds      == {"u1"}
Contents     == {"c1"}
Descriptions == {"d1"}
DbErrors     == {"APIError"}
ChatErrors   == {"OpenAIError"}
IndexError   == "list index out of range"

\* str(uuid.uuid4()): a fresh value on every call
Uuid4(n) == "uuid-" \o ToString(n + 1)

base_resume == "John Doe Software Engineer"
job_description == "Senior Full Stack Developer"

\* what the completion service may answer: response.choices, in order
ChoiceLists == { <<>>, <<"t1", "t2">>, <<"t2">> }

NotInitialized == "Supabase client not initialized. Check environment variables."
NoApiKey == "OpenAI API key not configured. Check environment variables."

\* str(e) of the HTTPException raised inside the handler's own try block
StrHTTPException(status, detail) ==
  IF status = 400 THEN "400: " \o detail ELSE "500: " \o detail

Min(a, b) == IF a <= b THEN a ELSE b

\* Python truthiness of an Optional[int], Optional[str], Optional[dict]
TruthyInt(o)  == o # None /\ o[1] # 0
TruthyStr(o)  == o # None /\ o[1] # ""
TruthyDict(o) == o # None /\ DOMAIN o[1] # {}

VARIABLES
  supabase,          \* TRUE iff create_client ran at import time
  openai_api_key,    \* TRUE iff openai.api_key was set at import time
  db,                \* the store: table name -> sequence of rows
  nextId,            \* table name -> next value of the serial id column
  extraTables,       \* tables created through /create-table
  uuids,             \* uuid4() values drawn so far
  inflight,          \* slot -> handler suspended between two outbound calls
  resp,              \* the response of the handler that finished last
  started            \* requests started so far

vars == <<supabase, openai_api_key, db, nextId, extraTables, uuids,
          inflight, resp, started>>

Idle == [op |-> "none", pc |-> "idle", user_id |-> "", job_id |-> 0,
         base_resume_id |-> 0, base_resume_content |-> "",
         job_description |-> "", choices |-> <<>>, calls |-> <<>>,
         raced |-> FALSE, absent |-> FALSE, n |-> 0]

NoResp == [op |-> "none", req |-> <<>>, status |-> 0, detail |-> "",
           data |-> <<>>, calls |-> <<>>, failedAt |-> 0, err |-> "",
           notFound |-> FALSE, raced |-> FALSE, refsExist |-> FALSE,
           choices |-> <<>>, n |-> 0]

Call(svc, kind, target) == [svc |-> svc, kind |-> kind, target |-> target]

\* the store outlives the gateway: at start-up it is empty or already holds
\* one uploaded resume and one uploaded job description
EmptyStore == [t \in Tables |-> <<>>]

SeededStore ==
  [t \in Tables |->
     IF t = "resumes" THEN <<[id |-> 1, user_id |-> "u1", content |-> "c1"]>>
     ELSE IF t = "job_descriptions" THEN <<[id |-> 1, description |-> "d1"]>>
     ELSE <<>>]

Init ==
  /\ supabase \in BOOLEAN
  /\ openai_api_key \in BOOLEAN
  /\ db \in {EmptyStore, SeededStore}
  /\ nextId = [t \in Tables |-> Len(db[t]) + 1]
  /\ extraTables = {}
  /\ uuids = 0
  /\ inflight = [r \in Reqs |-> Idle]
  /\ resp = NoResp
  /\ started = 0

\* ------------------------------------------------- the store (PostgREST)
Ids(rows) == { rows[i].id : i \in 1..Len(rows) }

\* .eq(column, value) for every entry of filters, ANDed
Matches(row, filters) ==
  \A c \in DOMAIN filters : c \in DOMAIN row /\ row[c] = filters[c]

RECURSIVE Filter(_, _)
Filter(rows, filters) ==
  IF rows = <<>> THEN <<>>
  ELSE IF Matches(Head(rows), filters)
       THEN <<Head(rows)>> \o Filter(Tail(rows), filters)
       ELSE Filter(Tail(rows), filters)

RECURSIVE Reject(_, _)
Reject(rows, filters) ==
  IF rows = <<>> THEN <<>>
  ELSE IF Matches(Head(rows), filters)
       THEN Reject(Tail(rows), filters)
       ELSE <<Head(rows)>> \o Reject(Tail(rows), filters)

\* .update(data): data's columns overwrite the matching rows' columns
Patch(row, data) ==
  [c \in DOMAIN row |-> IF c \in DOMAIN data THEN data[c] ELSE row[c]]

RECURSIVE PatchAll(_, _, _)
PatchAll(rows, filters, data) ==
  IF rows = <<>> THEN <<>>
  ELSE <<IF Matches(Head(rows), filters) THEN Patch(Head(rows), data)
         ELSE Head(rows)>> \o PatchAll(Tail(rows), filters, data)

\* the row as stored: the serial id column is filled in by the store
Stored(row, id) ==
  [c \in DOMAIN row \cup {"id"} |-> IF c = "id" THEN id ELSE row[c]]

\* variant: an upsert keyed on user_id, replacing the row already there
InsertUpsert(rows, new, id) ==
  IF \E i \in 1..Len(rows) : "user_id" \in DOMAIN new /\ rows[i].user_id = new.user_id
  THEN [i \in 1..Len(rows) |->
          IF rows[i].user_id = new.user_id THEN Stored(new, rows[i].id) ELSE rows[i]]
  ELSE Append(rows, Stored(new, id))

\* .insert(row).execute(): the row is appended, never merged
InsertRow(rows, new, id) == Append(rows, Stored(new, id))

\* ids present in old rows and gone from new rows
Lost(old, new) == Ids(old) \ Ids(new)

\* a row this suspended handler has read or written was removed under it
RacedBy(rq, newdb) ==
  \/ rq.raced
  \/ /\ rq.op = "tailor_resume"
     /\ rq.pc \in {"job", "chat", "store"}
     /\ rq.base_resume_id \in Lost(db["resumes"], newdb["resumes"])
  \/ /\ rq.op = "tailor_resume"
     /\ rq.pc \in {"chat", "store"}
     /\ rq.job_id \in Lost(db["job_descriptions"], newdb["job_descriptions"])
  \/ /\ rq.op = "insert_sample_data"
     /\ rq.pc = "job"
     /\ Filter(db["resumes"], [user_id |-> rq.user_id]) # <<>>
     /\ Filter(newdb["resumes"], [user_id |-> rq.user_id]) = <<>>

MarkRaced(newdb) ==
  [r \in Reqs |-> [inflight[r] EXCEPT !.raced = RacedBy(inflight[r], newdb)]]

\* ------------------------------------------------------ handler plumbing
CanStart(r) == inflight[r].pc = "idle" /\ started < MaxRequests

\* `if not supabase: raise HTTPException(500, ...)`, before the try block
SupabaseMissing == ~supabase

\* variant: the key is never looked at
ApiKeySkipped == FALSE

\* `if not openai.api_key: raise HTTPException(500, ...)`
ApiKeyMissing == ~openai_api_key

\* variant: the error text is dropped
ExceptDetailGeneric(text) == "Internal Server Error"

\* `except Exception as e: raise HTTPException(500, detail=str(e))`
ExceptDetail(text) == text

\* an outbound call raised: the handler's except clause answers
Raised(op, req, calls, e) ==
  [NoResp EXCEPT !.op = op, !.req = req, !.status = 500,
                 !.detail = ExceptDetail(e), !.calls = calls,
                 !.failedAt = Len(calls), !.err = e]

\* the handler itself raised inside its try block (HTTPException, IndexError)
RaisedInside(op, req, calls, text) ==
  [NoResp EXCEPT !.op = op, !.req = req, !.status = 500,
                 !.detail = ExceptDetail(text), !.calls = calls]

Unavailable(op, req, text) ==
  [NoResp EXCEPT !.op = op, !.req = req, !.status = 500, !.detail = text]

Ok(op, req, calls, data) ==
  [NoResp EXCEPT !.op = op, !.req = req, !.status = 200, !.calls = calls,
                 !.data = data]

\* a single-call handler answers: nothing stays in flight
Answer(response, newdb) ==
  /\ resp' = [response EXCEPT !.n = started + 1]
  /\ db' = newdb
  /\ inflight' = MarkRaced(newdb)
  /\ started' = started + 1

\* a multi-call handler answers from slot r
Finish(r, response, newdb) ==
  /\ resp' = [response EXCEPT !.n = IF inflight[r].pc = "idle" THEN started + 1
                                   ELSE inflight[r].n]
  /\ db' = newdb
  /\ inflight' = [MarkRaced(newdb) EXCEPT ![r] = Idle]

Suspend(r, rq, newdb) ==
  /\ inflight' = [MarkRaced(newdb) EXCEPT ![r] = rq]
  /\ db' = newdb
  /\ UNCHANGED resp

\* user ids a caller can name: fixed ones and the uuids handed out so far
KnownUsers == UserIds \cup { Uuid4(k) : k \in 0..(uuids - 1) }

\* ------------------------------------------------------------ GET /
root ==
  /\ started < MaxRequests
  /\ resp' = [NoResp EXCEPT !.op = "root", !.status = 200, !.n = started + 1,
                            !.data = [message |-> "Welcome to Resume GPT API"]]
  /\ started' = started + 1
  /\ UNCHANGED <<supabase, openai_api_key, db, nextId, extraTables, uuids, inflight>>

\* ------------------------------------------------- POST /tailor-resume
\* variant: the user_id filter is left out
ResumeFilterAny(rq) == <<>>

\* .eq("user_id", request.user_id)
ResumeFilter(rq) == [user_id |-> rq.user_id]

\* variant: the job is looked up under the resume's id
JobFilterWrongKey(rq) == [id |-> rq.base_resume_id]

\* .eq("id", request.job_id)
JobFilter(rq) == [id |-> rq.job_id]

\* response.choices[0].message.content
FirstChoice(choices) == choices[1]

\* lines 235-248: the two configuration checks and the resumes lookup
tailor_resume(r, user_id, job_id) ==
  LET req  == [user_id |-> user_id, job_id |-> job_id]
      rq0  == [Idle EXCEPT !.op = "tailor_resume", !.user_id = user_id,
                           !.job_id = job_id, !.n = started + 1]
      c    == <<Call("supabase", "select", "resumes")>>
      data == Filter(db["resumes"], ResumeFilter(rq0))
      \* no resumes row carries the requested user_id
      absent == Filter(db["resumes"], [user_id |-> user_id]) = <<>>
  IN
  /\ CanStart(r)
  /\ started' = started + 1
  /\ UNCHANGED <<supabase, openai_api_key, nextId, extraTables, uuids>>
  /\ IF SupabaseMissing
     THEN Finish(r, Unavailable("tailor_resume", req, NotInitialized), db)
     ELSE IF ApiKeyMissing
     THEN Finish(r, Unavailable("tailor_resume", req, NoApiKey), db)
     ELSE \/ \E e \in DbErrors : Finish(r, Raised("tailor_resume", req, c, e), db)
          \/ IF data = <<>>
             THEN Finish(r, [RaisedInside("tailor_resume", req, c,
                                StrHTTPException(400, "User not found"))
                               EXCEPT !.notFound = absent], db)
             ELSE Suspend(r, [rq0 EXCEPT !.pc = "job",
                                !.base_resume_id = data[1].id,
                                !.base_resume_content = data[1].content,
                                !.calls = c, !.absent = absent], db)

\* lines 250-255: the job_descriptions lookup
tailor_resume_job(r) ==
  LET rq   == inflight[r]
      req  == [user_id |-> rq.user_id, job_id |-> rq.job_id]
      c    == Append(rq.calls, Call("supabase", "select", "job_descriptions"))
      data == Filter(db["job_descriptions"], JobFilter(rq))
      \* no job_descriptions row carries the requested job_id
      absent == Filter(db["job_descriptions"], [id |-> rq.job_id]) = <<>>
  IN
  /\ rq.op = "tailor_resume" /\ rq.pc = "job"
  /\ UNCHANGED <<supabase, openai_api_key, nextId, extraTables, uuids, started>>
  /\ \/ \E e \in DbErrors :
          Finish(r, [Raised("tailor_resume", req, c, e)
                       EXCEPT !.raced = rq.raced, !.notFound = rq.absent], db)
     \/ IF data = <<>>
        THEN Finish(r, [RaisedInside("tailor_resume", req, c,
                           StrHTTPException(400, "Job not found"))
                          EXCEPT !.notFound = rq.absent \/ absent,
                                 !.raced = rq.raced], db)
        ELSE Suspend(r, [rq EXCEPT !.pc = "chat",
                           !.job_description = data[1].description,
                           !.calls = c,
                           !.absent = rq.absent \/ absent], db)

\* lines 257-278: the completion call and its first choice
tailor_resume_chat(r) ==
  LET rq  == inflight[r]
      req == [user_id |-> rq.user_id, job_id |-> rq.job_id]
      c   == Append(rq.calls, Call("openai", "chat", "gpt-3.5-turbo"))
  IN
  /\ rq.op = "tailor_resume" /\ rq.pc = "chat"
  /\ UNCHANGED <<supabase, openai_api_key, nextId, extraTables, uuids, started>>
  /\ \/ \E e \in ChatErrors :
          Finish(r, [Raised("tailor_resume", req, c, e)
                       EXCEPT !.raced = rq.raced, !.notFound = rq.absent], db)
     \/ \E choices \in ChoiceLists :
          IF choices = <<>>
          THEN Finish(r, [RaisedInside("tailor_resume", req, c, IndexError)
                            EXCEPT !.raced = rq.raced, !.notFound = rq.absent], db)
          ELSE Suspend(r, [rq EXCEPT !.pc = "store", !.choices = choices,
                                     !.calls = c], db)

\* the row tailor_resume writes (lines 281-286)
tailored_resume_data(rq) ==
  [user_id |-> rq.user_id, job_id |-> rq.job_id,
   base_resume_id |-> rq.base_resume_id, content |-> FirstChoice(rq.choices)]

\* lines 280-294: the tailored_resumes insert and the response
tailor_resume_store(r) ==
  LET rq   == inflight[r]
      req  == [user_id |-> rq.user_id, job_id |-> rq.job_id]
      c    == Append(rq.calls, Call("supabase", "insert", "tailored_resumes"))
      t    == "tailored_resumes"
      rows == InsertRow(db[t], tailored_resume_data(rq), nextId[t])
      refs == /\ rq.base_resume_id \in Ids(db["resumes"])
              /\ rq.job_id \in Ids(db["job_descriptions"])
  IN
  /\ rq.op = "tailor_resume" /\ rq.pc = "store"
  /\ UNCHANGED <<supabase, openai_api_key, extraTables, uuids, started>>
  /\ \/ /\ \E e \in DbErrors :
             Finish(r, [Raised("tailor_resume", req, c, e)
                          EXCEPT !.raced = rq.raced, !.notFound = rq.absent], db)
        /\ UNCHANGED nextId
     \/ /\ nextId' = [nextId EXCEPT ![t] = @ + 1]
        /\ Finish(r, [Ok("tailor_resume", req, c,
                         [user_id |-> rq.user_id, job_id |-> rq.job_id,
                          tailored_resume |-> FirstChoice(rq.choices)])
                        EXCEPT !.raced = rq.raced, !.notFound = rq.absent,
                               !.refsExist = refs, !.choices = rq.choices],
                  [db EXCEPT ![t] = rows])

\* --------------------------------------------- POST /insert-sample-data
\* lines 131-187: the configuration check, uuid4() and the resumes insert
insert_sample_data(r) ==
  LET user_id == Uuid4(uuids)
      rq0  == [Idle EXCEPT !.op = "insert_sample_data", !.user_id = user_id,
                           !.n = started + 1]
      c    == <<Call("supabase", "insert", "resumes")>>
      t    == "resumes"
      resume_data == [user_id |-> user_id, content |-> base_resume]
  IN
  /\ CanStart(r)
  /\ started' = started + 1
  /\ UNCHANGED <<supabase, openai_api_key, extraTables>>
  /\ IF SupabaseMissing
     THEN /\ Finish(r, Unavailable("insert_sample_data", <<>>, NotInitialized), db)
          /\ UNCHANGED <<nextId, uuids>>
     ELSE /\ uuids' = uuids + 1
          /\ \/ /\ \E e \in DbErrors :
                     Finish(r, Raised("insert_sample_data", [user_id |-> user_id], c, e), db)
                /\ UNCHANGED nextId
             \/ /\ nextId' = [nextId EXCEPT ![t] = @ + 1]
                /\ Suspend(r, [rq0 EXCEPT !.pc = "job", !.calls = c],
                           [db EXCEPT ![t] = InsertRow(db[t], resume_data, nextId[t])])

\* variant: the failure path deletes the resume it wrote
SampleFailureCompensates(rows, user_id) == Reject(rows, [user_id |-> user_id])

\* what the failure path of insert_sample_data leaves in resumes
SampleFailure(rows, user_id) == rows

\* lines 189-203: the job_descriptions insert and the response
insert_sample_data_job(r) ==
  LET rq   == inflight[r]
      req  == [user_id |-> rq.user_id]
      c    == Append(rq.calls, Call("supabase", "insert", "job_descriptions"))
      t    == "job_descriptions"
      job_data == [description |-> job_description]
      rows == InsertRow(db[t], job_data, nextId[t])
      undo == [db EXCEPT !["resumes"] = SampleFailure(db["resumes"], rq.user_id)]
  IN
  /\ rq.op = "insert_sample_data" /\ rq.pc = "job"
  /\ UNCHANGED <<supabase, openai_api_key, extraTables, uuids, started>>
  /\ \/ /\ \E e \in DbErrors :
             Finish(r, [Raised("insert_sample_data", req, c, e)
                          EXCEPT !.raced = rq.raced], undo)
        /\ UNCHANGED nextId
     \/ /\ nextId' = [nextId EXCEPT ![t] = @ + 1]
        /\ \/ Finish(r, [Ok("insert_sample_data", req, c,
                            [message |-> "Sample data inserted successfully",
                             user_id |-> rq.user_id, job_id |-> nextId[t]])
                           EXCEPT !.raced = rq.raced],
                     [db EXCEPT ![t] = rows])
           \* the insert is applied but the store returns no representation
           \/ Finish(r, [RaisedInside("insert_sample_data", req, c, IndexError)
                           EXCEPT !.raced = rq.raced],
                     [undo EXCEPT ![t] = rows])

\* ------------------------------------------- the generic gateway handlers
Rpc(name, arg) == [svc |-> "supabase", kind |-> "rpc", target |-> name, arg |-> arg]

\* inputs of the generic handlers, per table
Columns(t) ==
  IF t = "resumes" THEN {"id", "user_id", "content"}
  ELSE IF t = "job_descriptions" THEN {"id", "description"}
  ELSE {"id", "user_id", "job_id", "base_resume_id", "content"}

NewRows(t) ==
  IF t = "resumes" THEN {[user_id |-> "u1", content |-> "c1"]}
  ELSE IF t = "job_descriptions" THEN {[description |-> "d1"]}
  ELSE {[user_id |-> "u1", job_id |-> 1, base_resume_id |-> 1, content |-> "t1"]}

Changes(t) ==
  IF t = "job_descriptions" THEN {[description |-> "d2"]}
  ELSE {[content |-> "c2"]}

MatchPairs(t) ==
  { <<"id", i>> : i \in 1..MaxId } \cup
  (IF t = "job_descriptions" THEN {} ELSE { <<"user_id", "u1">> })

\* GET /tables (lines 306-318)
list_tables ==
  LET c == <<Rpc("get_tables", <<>>)>> IN
  /\ started < MaxRequests
  /\ UNCHANGED <<supabase, openai_api_key, nextId, extraTables, uuids>>
  /\ IF SupabaseMissing
     THEN Answer(Unavailable("list_tables", <<>>, NotInitialized), db)
     ELSE \/ \E e \in DbErrors : Answer(Raised("list_tables", <<>>, c, e), db)
          \/ Answer(Ok("list_tables", <<>>, c, Tables \cup extraTables), db)

\* GET /schema (lines 325-336)
get_schema ==
  LET c == <<Rpc("get_schema_info", <<>>)>> IN
  /\ started < MaxRequests
  /\ UNCHANGED <<supabase, openai_api_key, nextId, extraTables, uuids>>
  /\ IF SupabaseMissing
     THEN Answer(Unavailable("get_schema", <<>>, NotInitialized), db)
     ELSE \/ \E e \in DbErrors : Answer(Raised("get_schema", <<>>, c, e), db)
          \/ Answer(Ok("get_schema", <<>>, c, [t \in Tables |-> Columns(t)]), db)

\* direction.lower()
Lower(direction) ==
  IF direction = "ASC" THEN "asc"
  ELSE IF direction = "DESC" THEN "desc" ELSE direction

\* row a comes before row b under the order entries, the first entry first
RECURSIVE Before(_, _, _)
Before(a, b, order) ==
  IF order = <<>> THEN FALSE
  ELSE LET col == Head(order)[1]
           asc == Lower(Head(order)[2]) = "asc"
       IN IF a[col] = b[col] THEN Before(a, b, Tail(order))
          ELSE IF asc THEN a[col] < b[col] ELSE a[col] > b[col]

RECURSIVE InsertSorted(_, _, _)
InsertSorted(row, sorted, order) ==
  IF sorted = <<>> THEN <<row>>
  ELSE IF Before(row, Head(sorted), order) THEN <<row>> \o sorted
       ELSE <<Head(sorted)>> \o InsertSorted(row, Tail(sorted), order)

\* a stable sort: rows equal under the order keep their stored order
RECURSIVE Sort(_, _)
Sort(rows, order) ==
  IF rows = <<>> THEN <<>>
  ELSE InsertSorted(rows[Len(rows)], Sort(SubSeq(rows, 1, Len(rows) - 1), order), order)

\* .select(columns)
Project(rows, select) ==
  IF select = "*" THEN rows
  ELSE [i \in 1..Len(rows) |-> [c \in {select} |-> rows[i][c]]]

\* `if params.filters:` (lines 350-352)
ApplyFilters(rows, filters) ==
  IF TruthyDict(filters) THEN Filter(rows, filters[1]) ELSE rows

\* `if params.order:` (lines 355-360)
ApplyOrder(rows, order) ==
  IF order # None /\ order[1] # <<>> THEN Sort(rows, order[1]) ELSE rows

\* `if params.limit:` (lines 363-364)
ApplyLimit(rows, limit) ==
  IF TruthyInt(limit) THEN SubSeq(rows, 1, Min(limit[1], Len(rows))) ELSE rows

QueryResult(params) ==
  Project(ApplyLimit(ApplyOrder(ApplyFilters(db[params.table], params.filters),
                                params.order), params.limit), params.select)

FilterInputs ==
  {None, Some(<<>>), Some([user_id |-> "u1"]), Some([id |-> 1, user_id |-> "u1"])}

OrderInputs == {None, Some(<<>>), Some(<<<<"id", "DESC">>>>), Some(<<<<"id", "asc">>>>)}

LimitInputs == {None, Some(0), Some(1)}

\* POST /query (lines 343-373)
query_data(params) ==
  LET c == <<Call("supabase", "select", params.table)>> IN
  /\ started < MaxRequests
  /\ UNCHANGED <<supabase, openai_api_key, nextId, extraTables, uuids>>
  /\ IF SupabaseMissing
     THEN Answer(Unavailable("query_data", params, NotInitialized), db)
     ELSE \/ \E e \in DbErrors : Answer(Raised("query_data", params, c, e), db)
          \/ Answer(Ok("query_data", params, c, QueryResult(params)), db)

RECURSIVE InsertAll(_, _, _)
InsertAll(rows, new, id) ==
  IF new = <<>> THEN rows
  ELSE InsertAll(InsertRow(rows, Head(new), id), Tail(new), id + 1)

\* POST /insert (lines 380-391): data is one dict or a list of dicts
insert_data(table, data) ==
  LET c    == <<Call("supabase", "insert", table)>>
      req  == [table |-> table, data |-> data]
      new  == IF data.list THEN data.rows ELSE <<data.rows[1]>>
      rows == InsertAll(db[table], new, nextId[table])
  IN
  /\ started < MaxRequests
  /\ UNCHANGED <<supabase, openai_api_key, extraTables, uuids>>
  /\ IF SupabaseMissing
     THEN Answer(Unavailable("insert_data", req, NotInitialized), db) /\ UNCHANGED nextId
     ELSE \/ /\ \E e \in DbErrors : Answer(Raised("insert_data", req, c, e), db)
             /\ UNCHANGED nextId
          \/ /\ nextId' = [nextId EXCEPT ![table] = @ + Len(new)]
             /\ Answer(Ok("insert_data", req, c,
                          SubSeq(rows, Len(db[table]) + 1, Len(rows))),
                       [db EXCEPT ![table] = rows])

\* variant: the table argument is ignored
AlwaysTailored(request) == "tailored_resumes"

\* the table an update or a delete is sent to: request.table
TargetTable(request) == request.table

\* POST /update (lines 398-409)
update_data(request) ==
  LET t    == TargetTable(request)
      c    == <<Call("supabase", "update", t)>>
      flt  == [c2 \in {request.match_column} |-> request.match_value]
      rows == PatchAll(db[t], flt, request.data)
  IN
  /\ started < MaxRequests
  /\ UNCHANGED <<supabase, openai_api_key, nextId, extraTables, uuids>>
  /\ IF SupabaseMissing
     THEN Answer(Unavailable("update_data", request, NotInitialized), db)
     ELSE \/ \E e \in DbErrors : Answer(Raised("update_data", request, c, e), db)
          \/ Answer(Ok("update_data", request, c, Filter(rows, flt)),
                    [db EXCEPT ![t] = rows])

\* POST /delete (lines 416-427)
delete_data(request) ==
  LET t    == TargetTable(request)
      c    == <<Call("supabase", "delete", t)>>
      flt  == [c2 \in {request.match_column} |-> request.match_value]
  IN
  /\ started < MaxRequests
  /\ UNCHANGED <<supabase, openai_api_key, nextId, extraTables, uuids>>
  /\ IF SupabaseMissing
     THEN Answer(Unavailable("delete_data", request, NotInitialized), db)
     ELSE \/ \E e \in DbErrors : Answer(Raised("delete_data", request, c, e), db)
          \/ Answer(Ok("delete_data", request, c, Filter(db[t], flt)),
                    [db EXCEPT ![t] = Reject(db[t], flt)])

\* the statements callers send to run_sql_query in this model
Statements ==
  {[kind |-> "select", table |-> t] : t \in {"resumes"}} \cup
  {[kind |-> "delete", table |-> t] : t \in Tables}

\* the server-side procedure run_sql_query: it runs the statement it is given
RunSql(stmt) ==
  IF stmt.kind = "delete" THEN [db EXCEPT ![stmt.table] = <<>>] ELSE db

\* POST /execute-sql (lines 434-446): `request.params or {}`
execute_raw_sql(request) ==
  LET params == IF TruthyDict(request.params) THEN request.params[1] ELSE <<>>
      c == <<Rpc("run_sql_query", [sql_query |-> request.query, params |-> params])>>
  IN
  /\ started < MaxRequests
  /\ UNCHANGED <<supabase, openai_api_key, nextId, extraTables, uuids>>
  /\ IF SupabaseMissing
     THEN Answer(Unavailable("execute_raw_sql", request, NotInitialized), db)
     ELSE \/ \E e \in DbErrors : Answer(Raised("execute_raw_sql", request, c, e), db)
          \/ Answer(Ok("execute_raw_sql", request, c,
                       IF request.query.kind = "select" THEN db[request.query.table]
                       ELSE <<>>),
                    RunSql(request.query))

\* ", ".join(columns_sql)
RECURSIVE Join(_)
Join(parts) ==
  IF parts = <<>> THEN ""
  ELSE IF Len(parts) = 1 THEN parts[1]
  ELSE parts[1] \o ", " \o Join(Tail(parts))

\* lines 458-467: the CREATE TABLE statement
CreateTableSql(request) ==
  LET cols == [i \in 1..Len(request.columns) |->
                 request.columns[i][1] \o " " \o request.columns[i][2]]
      columns_sql == IF TruthyStr(request.primary_key)
                     THEN Append(cols, "PRIMARY KEY (" \o request.primary_key[1] \o ")")
                     ELSE cols
  IN "CREATE TABLE " \o request.table_name \o " (" \o Join(columns_sql) \o ");"

\* POST /create-table (lines 453-477)
create_table(request) ==
  LET c == <<Rpc("run_sql_query", [sql_query |-> CreateTableSql(request)])>> IN
  /\ started < MaxRequests
  /\ UNCHANGED <<supabase, openai_api_key, nextId, uuids>>
  /\ IF SupabaseMissing
     THEN /\ Answer(Unavailable("create_table", request, NotInitialized), db)
          /\ UNCHANGED extraTables
     ELSE \/ /\ \E e \in DbErrors : Answer(Raised("create_table", request, c, e), db)
             /\ UNCHANGED extraTables
          \/ /\ request.table_name \notin Tables \cup extraTables
             /\ extraTables' = extraTables \cup {request.table_name}
             /\ Answer(Ok("create_table", request, c, <<>>), db)

\* `request.user_id or str(uuid.uuid4())` (line 489)
UploadUserId(request) ==
  IF TruthyStr(request.user_id) THEN request.user_id[1] ELSE Uuid4(uuids)

\* POST /upload-resume (lines 484-504)
upload_resume(request) ==
  LET t       == "resumes"
      c       == <<Call("supabase", "insert", t)>>
      user_id == UploadUserId(request)
      drawn   == ~TruthyStr(request.user_id)
      resume_data == [user_id |-> user_id, content |-> request.content]
      rows    == InsertRow(db[t], resume_data, nextId[t])
  IN
  /\ started < MaxRequests
  /\ UNCHANGED <<supabase, openai_api_key, extraTables>>
  /\ IF SupabaseMissing
     THEN /\ Answer(Unavailable("upload_resume", request, NotInitialized), db)
          /\ UNCHANGED <<nextId, uuids>>
     ELSE /\ uuids' = IF drawn THEN uuids + 1 ELSE uuids
          /\ \/ /\ \E e \in DbErrors : Answer(Raised("upload_resume", request, c, e), db)
                /\ UNCHANGED nextId
             \/ /\ nextId' = [nextId EXCEPT ![t] = @ + 1]
                /\ \E returned \in BOOLEAN :
                     Answer(Ok("upload_resume", request, c,
                               [user_id |-> user_id,
                                resume_id |-> IF returned THEN Some(nextId[t]) ELSE None]),
                            [db EXCEPT ![t] = rows])

\* POST /upload-job-description (lines 511-527)
upload_job_description(request) ==
  LET t    == "job_descriptions"
      c    == <<Call("supabase", "insert", t)>>
      job_data == [description |-> request.description]
      rows == InsertRow(db[t], job_data, nextId[t])
  IN
  /\ started < MaxRequests
  /\ UNCHANGED <<supabase, openai_api_key, extraTables, uuids>>
  /\ IF SupabaseMissing
     THEN /\ Answer(Unavailable("upload_job_description", request, NotInitialized), db)
          /\ UNCHANGED nextId
     ELSE \/ /\ \E e \in DbErrors :
                  Answer(Raised("upload_job_description", request, c, e), db)
             /\ UNCHANGED nextId
          \/ /\ nextId' = [nextId EXCEPT ![t] = @ + 1]
             /\ \E returned \in BOOLEAN :
                  Answer(Ok("upload_job_description", request, c,
                            [job_id |-> IF returned THEN Some(nextId[t]) ELSE None]),
                         [db EXCEPT ![t] = rows])

\* ------------------------------------------------------ the whole system
QueryInputs ==
  [table : {"resumes"}, select : {"*"}, filters : FilterInputs,
   limit : LimitInputs, order : {None, Some(<<<<"id", "DESC">>>>)}]
  \cup
  [table : {"resumes"}, select : {"id"}, filters : {None},
   limit : {None}, order : OrderInputs]

MatchInputs ==
  UNION { { [table |-> t, match_column |-> m[1], match_value |-> m[2]] :
              m \in MatchPairs(t) } : t \in Tables }

UpdateInputs ==
  UNION { { [table |-> t, data |-> d, match_column |-> m[1], match_value |-> m[2]] :
              m \in MatchPairs(t), d \in Changes(t) } : t \in Tables }

InsertInputs(t) ==
  UNION { { [list |-> FALSE, rows |-> <<d>>], [list |-> TRUE, rows |-> <<d, d>>] } :
          d \in NewRows(t) }

SqlInputs == [query : Statements, params : {None, Some([a |-> 1])}]

CreateInputs ==
  [table_name : {"notes"}, columns : {<<<<"id", "int">>, <<"body", "text">>>>},
   primary_key : {None, Some(""), Some("id")}]

UploadInputs == [user_id : {None, Some("")} \cup {Some(u) : u \in UserIds},
                 content : Contents]

Next ==
  \/ root
  \/ \E r \in Reqs, u \in KnownUsers, j \in 1..MaxId : tailor_resume(r, u, j)
  \/ \E r \in Reqs : tailor_resume_job(r)
  \/ \E r \in Reqs : tailor_resume_chat(r)
  \/ \E r \in Reqs : tailor_resume_store(r)
  \/ \E r \in Reqs : insert_sample_data(r)
  \/ \E r \in Reqs : insert_sample_data_job(r)
  \/ list_tables
  \/ get_schema
  \/ \E params \in QueryInputs : query_data(params)
  \/ \E t \in Tables : \E data \in InsertInputs(t) : insert_data(t, data)
  \/ \E request \in UpdateInputs : update_data(request)
  \/ \E request \in MatchInputs : delete_data(request)
  \/ \E request \in SqlInputs : execute_raw_sql(request)
  \/ \E request \in CreateInputs : create_table(request)
  \/ \E request \in UploadInputs : upload_resume(request)
  \/ \E request \in [description : Descriptions] : upload_job_description(request)

Spec == Init /\ [][Next]_vars

\* ================================================================ claims
Tailored == db["tailored_resumes"]

Answered(op) == resp' # resp /\ resp'.op = op

\* the outbound calls of the two multi-call handlers, in program order
CallsOf(op) ==
  IF op = "tailor_resume"
  THEN <<Call("supabase", "select", "resumes"),
         Call("supabase", "select", "job_descriptions"),
         Call("openai", "chat", "gpt-3.5-turbo"),
         Call("supabase", "insert", "tailored_resumes")>>
  ELSE <<Call("supabase", "insert", "resumes"),
         Call("supabase", "insert", "job_descriptions")>>

HasCall(calls, svc, kind, target) ==
  \E i \in 1..Len(calls) :
    calls[i].svc = svc /\ calls[i].kind = kind /\ calls[i].target = target

\* C1: a tailor_resume request whose resumes or job_descriptions lookup
\* returned no rows is answered with a 400-class status.
C1_NotFoundIs400 ==
  (resp.op = "tailor_resume" /\ resp.notFound) => resp.status \in 400..499

\* C2: a tailor_resume request whose user_id or job_id has no row ends with
\* an error, having called neither the completion service nor the
\* tailored_resumes insert; it never stays in flight past the failed lookup.
C2_NotFoundStopsBeforeCompletion ==
  /\ (resp.op = "tailor_resume" /\ resp.notFound) =>
        /\ resp.status >= 400
        /\ ~HasCall(resp.calls, "openai", "chat", "gpt-3.5-turbo")
        /\ ~HasCall(resp.calls, "supabase", "insert", "tailored_resumes")
  /\ \A r \in Reqs : ~inflight[r].absent

C2_Witness ==
  /\ resp.op = "tailor_resume" /\ resp.notFound
  /\ Len(resp.calls) = 2 /\ resp.status = 500
  /\ Tailored = <<>>

\* C3 as stated: whenever tailor_resume inserts its row, the resumes row and
\* the job_descriptions row it points to are in the store at that moment.
C3_RefsExistAtInsert ==
  (resp.op = "tailor_resume" /\ resp.status = 200) => resp.refsExist

\* C3 amended: whenever tailor_resume inserts its row, the rows it points to
\* are in the store at that moment unless another request removed one of
\* them after this request had looked it up.
C3_RefsExistUnlessRaced ==
  (resp.op = "tailor_resume" /\ resp.status = 200) => (resp.refsExist \/ resp.raced)

C3_Witness ==
  /\ resp.op = "tailor_resume" /\ resp.status = 200
  /\ resp.refsExist /\ ~resp.raced
  /\ \E r \in Reqs : inflight[r].pc # "idle"

\* C4: the step in which tailor_resume succeeds appends exactly one row to
\* tailored_resumes, leaves every earlier row (same pair included) in place,
\* the row carries the request's user_id and job_id, the looked-up resume's
\* id and the first choice's text, and the response returns that text.
C4_AppendsOneRow ==
  [][\A r \in Reqs :
       (/\ inflight[r].pc = "store" /\ inflight'[r].pc = "idle"
        /\ Answered("tailor_resume") /\ resp'.status = 200) =>
       LET rq  == inflight[r]
           new == db'["tailored_resumes"]
           row == new[Len(new)]
       IN /\ Len(new) = Len(Tailored) + 1
          /\ SubSeq(new, 1, Len(Tailored)) = Tailored
          /\ row.user_id = rq.user_id /\ row.job_id = rq.job_id
          /\ row.base_resume_id = rq.base_resume_id
          /\ row.content = rq.choices[1]
          /\ resp'.data.tailored_resume = row.content
          /\ resp'.data.user_id = rq.user_id /\ resp'.data.job_id = rq.job_id
          /\ Len(Filter(new, [user_id |-> rq.user_id, job_id |-> rq.job_id]))
               = Len(Filter(Tailored, [user_id |-> rq.user_id, job_id |-> rq.job_id])) + 1
    ]_vars

C4_Witness ==
  /\ resp.op = "tailor_resume" /\ resp.status = 200
  /\ Len(Filter(Tailored, [user_id |-> resp.req.user_id,
                           job_id |-> resp.req.job_id])) = 2
  /\ resp.data.tailored_resume = Tailored[Len(Tailored)].content

RowsKept == \A i \in 1..Len(Tailored) :
              \E j \in 1..Len(db'["tailored_resumes"]) :
                 db'["tailored_resumes"][j] = Tailored[i]

\* C5 as stated: no step of the gateway removes or changes a
\* tailored_resumes row.
C5_NeverUpdatedOrDeleted == [][RowsKept]_vars

\* C5 amended: a step removes or changes a tailored_resumes row only if it
\* is update_data or delete_data sent to tailored_resumes, or execute_raw_sql.
C5_OnlyPassthroughTouches ==
  [][RowsKept \/ (/\ resp' # resp
                  /\ \/ /\ resp'.op \in {"update_data", "delete_data"}
                        /\ resp'.req.table = "tailored_resumes"
                     \/ resp'.op = "execute_raw_sql")]_vars

C5_Witness ==
  /\ resp.op = "delete_data" /\ resp.status = 200
  /\ resp.req.table = "resumes" /\ resp.data # <<>>
  /\ Tailored # <<>>

\* C6: when an outbound call raises, the request ends with status 500, the
\* detail is that error's text, and the calls issued are the handler's calls
\* up to the failing one, each once.
C6_FirstErrorEnds ==
  resp.failedAt > 0 =>
    /\ resp.status = 500
    /\ resp.detail = resp.err
    /\ Len(resp.calls) = resp.failedAt
    /\ resp.op \in {"tailor_resume", "insert_sample_data"} =>
         resp.calls = SubSeq(CallsOf(resp.op), 1, resp.failedAt)

C6_Witness ==
  /\ resp.op = "tailor_resume" /\ resp.failedAt = 3
  /\ resp.status = 500 /\ resp.detail = "OpenAIError"

\* C7: without the Database Client every operation but the welcome fails
\* with no outbound call; with it but without the completion key,
\* tailor_resume fails with no outbound call.
C7_UnconfiguredFailsFirst ==
  /\ (~supabase /\ resp.op \notin {"none", "root"}) =>
        resp.status = 500 /\ resp.calls = <<>>
  /\ ~supabase => \A r \in Reqs : inflight[r].pc = "idle"
  /\ (~openai_api_key /\ resp.op = "tailor_resume") =>
        resp.status = 500 /\ resp.calls = <<>>
  /\ ~openai_api_key => \A r \in Reqs : inflight[r].op # "tailor_resume"

C7_Witness ==
  /\ supabase /\ ~openai_api_key
  /\ resp.op = "tailor_resume" /\ resp.status = 500
  /\ resp.detail = NoApiKey /\ resp.calls = <<>>

\* C8: upload_resume with an explicitly supplied user_id (any string, the
\* empty one included) appends a row carrying exactly that user_id and
\* returns it.
C8_ExplicitUserIdVerbatim ==
  [][(/\ Answered("upload_resume") /\ resp'.status = 200
      /\ resp'.req.user_id # None) =>
       LET new == db'["resumes"] IN
       /\ Len(new) = Len(db["resumes"]) + 1
       /\ new[Len(new)].user_id = resp'.req.user_id[1]
       /\ resp'.data.user_id = resp'.req.user_id[1]
    ]_vars

\* C9: query_data returns only rows matching every filter, exactly
\* min(L, matching) of them under a limit L >= 0, all of them without one.
C9_LimitExact ==
  [][(Answered("query_data") /\ resp'.status = 200) =>
       LET p == resp'.req
           f == IF p.filters = None THEN <<>> ELSE p.filters[1]
           m == Filter(db[p.table], f)
           d == resp'.data
       IN /\ \A i \in 1..Len(d) : \E k \in 1..Len(m) :
                \A c \in DOMAIN d[i] : d[i][c] = m[k][c]
          /\ Len(d) = IF p.limit = None THEN Len(m) ELSE Min(p.limit[1], Len(m))
    ]_vars

\* C10: when insert_sample_data fails at its second write, the answer is a
\* 500, no delete was issued, and the resumes row written for the fresh
\* user_id is still in the store (unless another request removed it).
C10_NoCompensation ==
  (resp.op = "insert_sample_data" /\ resp.status = 500 /\ Len(resp.calls) = 2) =>
    /\ resp.calls = CallsOf("insert_sample_data")
    /\ \/ Filter(db["resumes"], [user_id |-> resp.req.user_id]) # <<>>
       \/ resp.raced

C10_Witness ==
  /\ resp.op = "insert_sample_data" /\ resp.status = 500
  /\ resp.failedAt = 2 /\ ~resp.raced
  /\ Filter(db["resumes"], [user_id |-> resp.req.user_id]) # <<>>
====
